---- MODULE Spec2Model ----
(***************************************************************************)
(* Model of whatHappenToday/app.py: a Streamlit script that is re-executed  *)
(* from top to bottom on every page load, text edit and button click.       *)
(* One action is one execution of the script (load_dotenv, main).           *)
(*                                                                          *)
(* Transcripts and prompts are sequences of characters; report texts,       *)
(* messages and exception texts are opaque strings.                         *)
(***************************************************************************)
EXTENDS Integers, Sequences, FiniteSets, TLC

\* ------------------------------------------------------------------ bounds
MaxLen == 2        \* longest transcript typed by the user
MaxClicks == 3     \* clicks of "Start Now" in one session

\* ------------------------------------------------------- python values
None == [t |-> "None"]
Str(s) == [t |-> "str", v |-> s]

\* truthiness of an Optional[str] holding an opaque text
Truthy(x) == x.t = "str" /\ x.v # ""

\* ------------------------------------------------------------ alphabets
WhiteSpace == {" "}
Chars == {" ", "a", "{dialogue}"}

RECURSIVE SeqsUpTo(_, _)
SeqsUpTo(S, n) ==
    IF n = 0 THEN {<<>>}
    ELSE LET shorter == SeqsUpTo(S, n - 1)
         IN  shorter \cup {Append(s, c) : s \in {x \in shorter : Len(x) = n - 1}, c \in S}

Transcripts == SeqsUpTo(Chars, MaxLen)

\* texts the service can generate, exception texts it can raise
Texts == {"", "## Report A", "## Report B"}
ExcTexts == {"Connection error.", "401 Unauthorized"}

\* values OPENAI_API_KEY can take in the process environment / the .env file
KeyValues == {None, Str(""), Str("sk-test")}

\* --------------------------------------------------------------- messages
ConfigErrorMsg == "OpenAI API Key not set"
Placeholder == "empty..."
FailMsg == "Report generation failed, check the API Key or network."
DefaultText == "sorry, no report generated"
WarningMsg == "Please input chat~"
NotFoundText == <<"example file not found">>

\* ------------------------------------------------------------ str.strip()
RECURSIVE LStrip(_)
LStrip(s) == IF s # <<>> /\ Head(s) \in WhiteSpace THEN LStrip(Tail(s)) ELSE s

RECURSIVE RStrip(_)
RStrip(s) ==
    IF s # <<>> /\ s[Len(s)] \in WhiteSpace THEN RStrip(SubSeq(s, 1, Len(s) - 1)) ELSE s

\* variant: the transcript is tested as typed, without strip()
StripOmitted(s) == s

Strip(s) == RStrip(LStrip(s))

\* ---------------------------------------------------------- prompt template
\* the template as a sequence of pieces; Slot is the {dialogue} placeholder
Slot == "{dialogue}"
H1 == "### 1. overview"
H2 == "### 2. timeline"
H3 == "### 3. root cause"
H4 == "### 4. resolution"
H5 == "### 5. lessons"
prompt_template ==
    <<"role", H1, "body1", H2, "body2", H3, "body3", H4, "body4", H5, "body5",
      "---", "[transcript]", Slot, "---">>

\* ChatPromptTemplate.from_template(...).format(dialogue = value): every
\* placeholder of the template is replaced by the value, the value itself is
\* not scanned again
\* variant: the transcript is stripped before it is put into the template
RECURSIVE FormatStripped(_, _)
FormatStripped(tpl, value) ==
    IF tpl = <<>> THEN <<>>
    ELSE IF Head(tpl) = Slot THEN Strip(value) \o FormatStripped(Tail(tpl), value)
    ELSE <<Head(tpl)>> \o FormatStripped(Tail(tpl), value)

RECURSIVE Format(_, _)
Format(tpl, value) ==
    IF tpl = <<>> THEN <<>>
    ELSE IF Head(tpl) = Slot THEN value \o Format(Tail(tpl), value)
    ELSE <<Head(tpl)>> \o Format(Tail(tpl), value)

\* ------------------------------------------------------ service responses
\* chain.invoke either raises or returns a dict
Dicts == {[k \in {"dialogue", "text"} |-> IF k = "text" THEN s ELSE "in"] : s \in Texts}
            \cup {[k \in {"dialogue"} |-> "in"]}
Outcomes == {[kind |-> "raise", exc |-> e] : e \in ExcTexts}
              \cup {[kind |-> "return", dict |-> d] : d \in Dicts}

\* variant: a missing key gives the empty text instead of the default
DictGetEmpty(d, key, default) == IF key \in DOMAIN d THEN d[key] ELSE ""

\* dict.get(key, default)
DictGet(d, key, default) == IF key \in DOMAIN d THEN d[key] ELSE default

\* ------------------------------------------------------------------ state
VARIABLES
    os_environ,     \* value of OPENAI_API_KEY in os.environ (None when not set)
    session_state,  \* st.session_state: a dict whose only possible key is "summary"
    text_area,      \* value held by the text-area widget (None before first render)
    display,        \* what the last execution of the script put on the page
    calls,          \* number of chain.invoke calls made so far
    clicks,         \* number of "Start Now" clicks so far
    last_run,       \* inputs and result of the last execution of the script
    last_request,   \* behaviour of the service in the most recent chain.invoke
    prev_summary    \* session_state before the last execution of the script

vars == <<os_environ, session_state, text_area, display, calls,
          clicks, last_run, last_request, prev_summary>>

EmptyDict == [k \in {} |-> ""]
BlankPage == [config_error |-> None, api_error |-> None, warning |-> None,
              exception |-> None, text_area |-> FALSE, button |-> FALSE,
              spinner |-> FALSE, report |-> None]
NoRun == [button |-> FALSE, halted |-> FALSE, dialogue |-> None, called |-> FALSE,
          prompt |-> None, outcome |-> None, ret |-> None, raised |-> None]

\* ----------------------------------------------------------- load_dotenv()
\* a variable already present in os.environ is not overridden
load_dotenv(environ, dotenv) == IF environ = None THEN dotenv ELSE environ

\* variant: the error is shown but the script is not stopped
check_api_key_no_stop(environ) == FALSE

\* ---------------------------------------------------------- check_api_key()
\* TRUE when the script is stopped (st.error + st.stop)
check_api_key(environ) == ~Truthy(environ)

\* variant: no try/except around chain.invoke
generate_summary_uncaught(dialogue_text, outcome) ==
    LET prompt == Format(prompt_template, dialogue_text)
    IN  IF outcome.kind = "return"
        THEN [prompt |-> prompt, invoked |-> 1,
              ret |-> Str(DictGet(outcome.dict, "text", DefaultText)),
              st_error |-> None, raised |-> None]
        ELSE [prompt |-> prompt, invoked |-> 1,
              ret |-> None,
              st_error |-> None, raised |-> Str(outcome.exc)]

\* variant: a call that raised is issued a second time
generate_summary_retry(dialogue_text, outcome) ==
    LET prompt == Format(prompt_template, dialogue_text)
    IN  IF outcome.kind = "return"
        THEN [prompt |-> prompt, invoked |-> 1,
              ret |-> Str(DictGet(outcome.dict, "text", DefaultText)),
              st_error |-> None, raised |-> None]
        ELSE [prompt |-> prompt, invoked |-> 2,
              ret |-> None,
              st_error |-> Str(outcome.exc), raised |-> None]

\* ------------------------------------------------------- generate_summary()
\* result of the call for a given behaviour of the service:
\*   prompt   - the prompt given to chain.invoke
\*   invoked  - number of times chain.invoke is called
\*   ret      - the value returned to main
\*   st_error - the text put on the page by st.error (None if none)
\*   raised   - the exception that leaves the function (None if none)
\* (the service raises subclasses of Exception only)
generate_summary(dialogue_text, outcome) ==
    LET prompt == Format(prompt_template, dialogue_text)
    IN  IF outcome.kind = "return"
        THEN [prompt |-> prompt, invoked |-> 1,
              ret |-> Str(DictGet(outcome.dict, "text", DefaultText)),
              st_error |-> None, raised |-> None]
        ELSE [prompt |-> prompt, invoked |-> 1,
              ret |-> None,
              st_error |-> Str(outcome.exc), raised |-> None]

\* variant: the placeholder is stored on every execution of the script
InitSummaryAlways(state) == [k \in {"summary"} |-> Placeholder]

\* variant: a call without result leaves the previous Report in place
StoreSummaryKeepOld(state, summary_output) ==
    IF Truthy(summary_output)
    THEN [state EXCEPT !["summary"] = summary_output.v]
    ELSE state

\* ---------------------------------------------- session state (in main())
\* the Report is given its placeholder value once per session
InitSummary(state) ==
    IF "summary" \in DOMAIN state THEN state ELSE [k \in {"summary"} |-> Placeholder]

\* the Report is overwritten after generate_summary has returned
StoreSummary(state, summary_output) ==
    IF Truthy(summary_output)
    THEN [state EXCEPT !["summary"] = summary_output.v]
    ELSE [state EXCEPT !["summary"] = FailMsg]

\* ------------------------------------------------------------------ main()
\* One execution of the script.
\*   button  - TRUE when the execution was triggered by a click on "Start Now"
\*   typed   - the text the user left in the text area (None: not edited)
\*   file    - content of conversation_example.txt (None: file not found)
\*   dotenv  - value of OPENAI_API_KEY in the .env file (None: no entry)
\*   outcome - what chain.invoke does if it is called in this execution
main(button, typed, file, dotenv, outcome) ==
    LET environ == load_dotenv(os_environ, dotenv)
    IN
    /\ os_environ' = environ
    /\ prev_summary' = session_state
    /\ IF check_api_key(environ)
       THEN /\ display' = [BlankPage EXCEPT !.config_error = Str(ConfigErrorMsg)]
            /\ last_run' = [NoRun EXCEPT !.button = button, !.halted = TRUE]
            /\ UNCHANGED <<session_state, text_area, calls, last_request>>
       ELSE
         LET example_text == IF file = None THEN NotFoundText ELSE file.v
             dialogue_input == IF typed # None THEN typed.v
                               ELSE IF text_area = None THEN example_text
                               ELSE text_area.v
             state0 == InitSummary(session_state)
             blank == Strip(dialogue_input) = <<>>
             call == button /\ ~blank
             gs == generate_summary(dialogue_input, outcome)
             aborted == call /\ gs.raised # None
             state1 == IF ~call \/ aborted THEN state0
                       ELSE StoreSummary(state0, gs.ret)
         IN
         /\ text_area' = Str(dialogue_input)
         /\ session_state' = state1
         /\ calls' = IF call THEN calls + gs.invoked ELSE calls
         /\ last_request' = IF call THEN outcome ELSE last_request
         /\ display' = [config_error |-> None,
                        api_error |-> IF call THEN gs.st_error ELSE None,
                        warning |-> IF button /\ blank THEN Str(WarningMsg) ELSE None,
                        exception |-> IF aborted THEN gs.raised ELSE None,
                        text_area |-> TRUE, button |-> TRUE, spinner |-> call,
                        report |-> IF aborted THEN None ELSE Str(state1["summary"])]
         /\ last_run' = [button |-> button, halted |-> FALSE,
                         dialogue |-> Str(dialogue_input), called |-> call,
                         prompt |-> IF call THEN Str(gs.prompt) ELSE None,
                         outcome |-> IF call THEN outcome ELSE None,
                         ret |-> IF call /\ ~aborted THEN gs.ret ELSE None,
                         raised |-> IF call THEN gs.raised ELSE None]

\* ------------------------------------------------------------------ actions
Init ==
    /\ os_environ \in KeyValues
    /\ session_state = EmptyDict
    /\ text_area = None
    /\ display = BlankPage
    /\ calls = 0
    /\ clicks = 0
    /\ last_run = NoRun
    /\ last_request = None
    /\ prev_summary = EmptyDict

Files == {None} \cup {Str(t) : t \in Transcripts}
Edits == {Str(t) : t \in Transcripts}
\* the .env file and the example file are read only when their value is used
DotenvChoices == IF os_environ = None THEN KeyValues ELSE {None}
FileChoices == IF text_area = None THEN Files ELSE {None}

\* the page is opened, or reloaded: the script runs with no widget touched
PageLoad ==
    \E file \in FileChoices, dotenv \in DotenvChoices :
        /\ main(FALSE, None, file, dotenv, None)
        /\ UNCHANGED clicks

\* the user edits the text area and leaves it: the script runs again
EditText ==
    /\ display.text_area
    /\ \E typed \in Edits, dotenv \in DotenvChoices :
        /\ main(FALSE, typed, None, dotenv, None)
        /\ UNCHANGED clicks

\* the user clicks "Start Now" (possibly right after editing the text)
ClickStartNow ==
    /\ display.button
    /\ clicks < MaxClicks
    /\ \E typed \in Edits \cup {None}, dotenv \in DotenvChoices, outcome \in Outcomes :
        /\ main(TRUE, typed, None, dotenv, outcome)
        /\ clicks' = clicks + 1

Next == PageLoad \/ EditText \/ ClickStartNow

Spec == Init /\ [][Next]_vars

\* =================================================================== claims
\* vocabulary of the properties, defined without the operators of the model
IsBlank(t) == \A i \in 1..Len(t) : t[i] \in WhiteSpace
Summary == session_state["summary"]
Stored == "summary" \in DOMAIN session_state
ClickedBlank == last_run.button /\ ~last_run.halted /\ IsBlank(last_run.dialogue.v)
ClickedNonBlank == last_run.button /\ ~last_run.halted /\ ~IsBlank(last_run.dialogue.v)
Raised == last_run.called /\ last_run.outcome.kind = "raise"
Returned == last_run.called /\ last_run.outcome.kind = "return"
ReturnedText == Returned /\ "text" \in DOMAIN last_run.outcome.dict
ReturnedNoText == Returned /\ "text" \notin DOMAIN last_run.outcome.dict
SlotPos == CHOOSE i \in 1..Len(prompt_template) : prompt_template[i] = Slot
HeaderPos(h) == CHOOSE i \in 1..Len(prompt_template) : prompt_template[i] = h

\* C1: a click on "Start Now" with an empty or whitespace-only transcript
\* makes no call to the service and shows the validation warning, whatever
\* happened before in the session.
C1_BlankClickMakesNoCall ==
    [][ClickedBlank' =>
          /\ calls' = calls
          /\ ~last_run'.called
          /\ display'.warning = Str(WarningMsg)]_vars

C1_Witness == ClickedBlank /\ Len(last_run.dialogue.v) > 0 /\ calls > 0

\* C2: when the service call raises, generate_summary returns None, nothing
\* is raised out of it, and the stored and displayed Report is the fixed
\* failure message, not the text of the exception.
C2_RaiseGivesFailMsg ==
    Raised =>
        /\ last_run.ret = None
        /\ last_run.raised = None
        /\ Stored /\ Summary = FailMsg
        /\ display.report = Str(FailMsg)
        /\ display.report # Str(last_run.outcome.exc)
        /\ display.exception = None

C2_Witness == Raised /\ prev_summary = [k \in {"summary"} |-> "## Report A"]

\* C3: when the service call returns a generated text S, whatever S is (the
\* empty text included), generate_summary returns S and the stored and
\* displayed Report is S.
C3_TextShownVerbatim ==
    ReturnedText =>
        /\ last_run.ret = Str(last_run.outcome.dict["text"])
        /\ Stored /\ Summary = last_run.outcome.dict["text"]
        /\ display.report = Str(last_run.outcome.dict["text"])

\* C4 as stated: after any sequence of actions the number of calls to the
\* service equals the number of clicks.
C4_CallsEqualClicks == calls = clicks

\* C4 amended: a click with a non-blank transcript makes exactly one call to
\* the service (no cache, no retry), any other execution of the script makes
\* none.
C4_OneCallPerNonBlankClick ==
    [][calls' = calls + (IF ClickedNonBlank' THEN 1 ELSE 0)]_vars

C4_Witness ==
    /\ clicks = 3 /\ calls = 2
    /\ Raised
    /\ last_run.dialogue.v = <<"a">>

C6_NoKeyHalts ==
    (display # BlankPage /\ ~Truthy(os_environ)) =>
        /\ display = [BlankPage EXCEPT !.config_error = Str(ConfigErrorMsg)]
        /\ ~Stored
        /\ calls = 0
        /\ ~ENABLED ClickStartNow

C6_Witness == display # BlankPage /\ os_environ = None

\* C7 as stated: a response without a 'text' entry is handled like a raised
\* error: the error is reported, None is returned and the Report is the
\* failure message.
C7_NoTextIsFailure ==
    ReturnedNoText =>
        /\ last_run.ret = None
        /\ display.api_error # None
        /\ Summary = FailMsg

\* C7 amended: for a response without a 'text' entry generate_summary reports
\* no error and returns the default text, which becomes the Report.
C7_NoTextGivesDefault ==
    ReturnedNoText =>
        /\ last_run.ret = Str(DefaultText)
        /\ display.api_error = None
        /\ Summary = DefaultText
        /\ display.report = Str(DefaultText)

C7_Witness == ReturnedNoText /\ prev_summary = [k \in {"summary"} |-> FailMsg]

\* C8: after a failure the next click with a non-blank transcript makes a
\* fresh call, and when that call returns a text the text replaces the failure
\* message; the failure message is replaced only by such a click.
C8_RecoveryByNewClick ==
    [][(Stored /\ Summary = FailMsg) =>
          /\ ReturnedText' =>
                (calls' = calls + 1 /\ Summary' = last_run'.outcome.dict["text"])
          /\ Summary' # FailMsg => (ClickedNonBlank' /\ Returned')]_vars

\* C9: the prompt sent for a non-blank transcript T is the template with T
\* in place of the slot: T is there unmodified, the five section headers
\* come in their order and before T, and the prompt depends on T only.
C9_PromptIsTemplateWithTranscript ==
    last_run.called =>
        LET T == last_run.dialogue.v
            P == last_run.prompt.v
        IN  /\ Len(P) = Len(prompt_template) - 1 + Len(T)
            /\ SubSeq(P, SlotPos, SlotPos + Len(T) - 1) = T
            /\ SubSeq(P, 1, SlotPos - 1) = SubSeq(prompt_template, 1, SlotPos - 1)
            /\ SubSeq(P, SlotPos + Len(T), Len(P))
                  = SubSeq(prompt_template, SlotPos + 1, Len(prompt_template))
            /\ HeaderPos(H1) < HeaderPos(H2) /\ HeaderPos(H2) < HeaderPos(H3)
            /\ HeaderPos(H3) < HeaderPos(H4) /\ HeaderPos(H4) < HeaderPos(H5)
            /\ HeaderPos(H5) < SlotPos
            /\ \A h \in {H1, H2, H3, H4, H5} : P[HeaderPos(h)] = h

C9_Witness ==
    /\ last_run.called
    /\ last_run.dialogue.v = <<" ", Slot>>

\* C10: a click rejected for a blank transcript leaves the stored Report as
\* it was and shows that value; the Report changes only in an execution that
\* called generate_summary.
C10_BlankClickKeepsReport ==
    [][/\ ClickedBlank' =>
            /\ session_state' = session_state
            /\ display'.report = Str(Summary)
       /\ (Stored /\ session_state' # session_state) => last_run'.called]_vars

C10_Witness == ClickedBlank /\ Summary = "## Report A" /\ display.warning # None

====
